---- MODULE Spec2Model ----
(***************************************************************************)
(* Model of lcutils' GcsTools (src/src/lcutils/gcs.py): the singleton      *)
(* constructor GcsTools.__new__ and the manual V4 signed-URL routine       *)
(* GcsTools.generate_signed_url, as driven by src/main.py.                 *)
(*                                                                         *)
(* Python strings are modelled as sequences of code points, byte strings   *)
(* as sequences of byte values, and a dict as the sequence of its          *)
(* <<key, value>> items in insertion order (keys unique).                  *)
(***************************************************************************)
EXTENDS Integers, Sequences, FiniteSets, TLC

\* Python's None, and a value that is present (an optional argument, an
\* optional attribute or a returned string).
None == [none |-> TRUE]

Some(v) == [some |-> v]

(***************************************************************************)
(* String literals.  The printable ASCII table, split where a character    *)
(* cannot be written in a TLA+ string (34, 92 and 96 are left out).        *)
(***************************************************************************)
AsciiFrom32 == " !"
AsciiFrom35 == "#$%&'()*+,-./0123456789:;<=>?@ABCDEFGHIJKLMNOPQRSTUVWXYZ["
AsciiFrom93 == "]^_"
AsciiFrom97 == "abcdefghijklmnopqrstuvwxyz{|}~"

IndexIn(table, c) ==
    IF \E j \in 1..Len(table) : SubSeq(table, j, j) = c
    THEN CHOOSE j \in 1..Len(table) : SubSeq(table, j, j) = c
    ELSE 0

\* ord(c) of a one-character literal.
Ord(c) ==
    IF IndexIn(AsciiFrom32, c) > 0 THEN 31 + IndexIn(AsciiFrom32, c)
    ELSE IF IndexIn(AsciiFrom35, c) > 0 THEN 34 + IndexIn(AsciiFrom35, c)
    ELSE IF IndexIn(AsciiFrom93, c) > 0 THEN 92 + IndexIn(AsciiFrom93, c)
    ELSE 96 + IndexIn(AsciiFrom97, c)

\* A string literal as its sequence of code points.
Str(s) == [i \in 1..Len(s) |-> Ord(SubSeq(s, i, i))]

\* "\n"
NL == <<10>>

(***************************************************************************)
(* Library functions used by generate_signed_url.                          *)
(***************************************************************************)

\* str.lower() on code points below 256 (ASCII and Latin-1 capitals).
LowerChar(c) ==
    IF c \in 65..90 THEN c + 32
    ELSE IF c \in 192..222 /\ c # 215 THEN c + 32
    ELSE c

Lower(s) == [i \in 1..Len(s) |-> LowerChar(s[i])]

\* str.strip(): what a trimming canonicalisation would do (not called by
\* generate_signed_url, which only lowercases header values).
IsSpace(c) == c \in {9, 10, 11, 12, 13, 32}

RECURSIVE LStrip(_)
LStrip(s) == IF s # <<>> /\ IsSpace(Head(s)) THEN LStrip(Tail(s)) ELSE s

RECURSIVE RStrip(_)
RStrip(s) ==
    IF s # <<>> /\ IsSpace(s[Len(s)]) THEN RStrip(SubSeq(s, 1, Len(s) - 1)) ELSE s

Strip(s) == RStrip(LStrip(s))

\* UTF-8 encoding of a string (six.ensure_binary, and the encoding quote()
\* applies to a str argument), for code points below 2048.
Utf8Char(c) ==
    IF c < 128 THEN <<c>>
    ELSE <<192 + (c \div 64), 128 + (c % 64)>>

RECURSIVE EncodeUtf8Range(_, _, _)
EncodeUtf8Range(s, lo, hi) ==
    IF lo > hi THEN <<>>
    ELSE IF lo = hi THEN Utf8Char(s[lo])
    ELSE LET mid == (lo + hi) \div 2
         IN  EncodeUtf8Range(s, lo, mid) \o EncodeUtf8Range(s, mid + 1, hi)

\* (an all-ASCII string is its own encoding)
EncodeUtf8(s) ==
    IF \A i \in 1..Len(s) : s[i] < 128 THEN s ELSE EncodeUtf8Range(s, 1, Len(s))

\* Hex digits.
UpperHexDigits == Str("0123456789ABCDEF")
LowerHexDigits == Str("0123456789abcdef")

\* urllib.parse.quote never escapes letters, digits and "_.-~".
AlwaysSafe ==
    (48..57) \cup (65..90) \cup (97..122) \cup {Ord("_"), Ord("."), Ord("-"), Ord("~")}

Percent == Ord("%")

\* One byte under quote(); unescaped is AlwaysSafe with the safe argument.
QuoteByte(b, unescaped) ==
    IF b \in unescaped THEN <<b>>
    ELSE <<Percent, UpperHexDigits[(b \div 16) + 1], UpperHexDigits[(b % 16) + 1]>>

RECURSIVE QuoteRange(_, _, _, _)
QuoteRange(bs, unescaped, lo, hi) ==
    IF lo > hi THEN <<>>
    ELSE IF lo = hi THEN QuoteByte(bs[lo], unescaped)
    ELSE LET mid == (lo + hi) \div 2
         IN  QuoteRange(bs, unescaped, lo, mid) \o QuoteRange(bs, unescaped, mid + 1, hi)

\* urllib.parse.quote(bytes, safe): escape each byte that is neither always
\* safe nor in safe (bytes that need no escaping come out as they are).
QuoteBytes(bs, safe) ==
    LET unescaped == AlwaysSafe \cup safe
    IN  IF \A i \in 1..Len(bs) : bs[i] \in unescaped THEN bs
        ELSE QuoteRange(bs, unescaped, 1, Len(bs))

\* urllib.parse.quote(string, safe): UTF-8 encode, then escape each byte.
Quote(s, safe) == QuoteBytes(EncodeUtf8(s), safe)

\* str(n) of an int.
RECURSIVE Digits(_)
Digits(n) ==
    IF n < 10 THEN <<48 + n>> ELSE Digits(n \div 10) \o <<48 + (n % 10)>>

IntToStr(n) == IF n < 0 THEN Str("-") \o Digits(0 - n) ELSE Digits(n)

\* Dict values: a str, or an int (X-Goog-Expires holds the int expiration).
StrVal(s) == [t |-> "str", v |-> s]

IntVal(n) == [t |-> "int", v |-> <<n>>]

\* str(v) of a dict value: an int is printed in decimal, a str is itself.
PyStr(val) == IF val.t = "int" THEN IntToStr(val.v[1]) ELSE val.v

\* binascii.hexlify(bytes).decode(): two lowercase hex digits per byte.
RECURSIVE Hexlify(_)
Hexlify(bs) ==
    IF bs = <<>> THEN <<>>
    ELSE <<LowerHexDigits[(Head(bs) \div 16) + 1], LowerHexDigits[(Head(bs) % 16) + 1]>>
         \o Hexlify(Tail(bs))

\* sep.join(parts)
RECURSIVE Join(_, _)
Join(sep, parts) ==
    IF parts = <<>> THEN <<>>
    ELSE IF Len(parts) = 1 THEN parts[1]
    ELSE parts[1] \o sep \o Join(sep, Tail(parts))

\* Python's ordering of strings: lexicographic on code points.
RECURSIVE StrLess(_, _)
StrLess(a, b) ==
    IF b = <<>> THEN FALSE
    ELSE IF a = <<>> THEN TRUE
    ELSE IF Head(a) # Head(b) THEN Head(a) < Head(b)
    ELSE StrLess(Tail(a), Tail(b))

(***************************************************************************)
(* Dicts: insertion-ordered sequences of <<key, value>> items.             *)
(***************************************************************************)
EmptyDict == <<>>

Keys(d) == {d[i][1] : i \in 1..Len(d)}

HasKey(d, k) == k \in Keys(d)

Get(d, k) == d[CHOOSE i \in 1..Len(d) : d[i][1] = k][2]

\* d[k] = v : replaces the value in place when k is present, appends otherwise.
DictSet(d, k, v) ==
    IF \E i \in 1..Len(d) : d[i][1] = k
    THEN [i \in 1..Len(d) |-> IF d[i][1] = k THEN <<k, v>> ELSE d[i]]
    ELSE Append(d, <<k, v>>)

\* d == e on two dicts: the same items, whatever the insertion order.
DictEq(d, e) ==
    /\ Keys(d) = Keys(e)
    /\ \A k \in Keys(d) : Get(d, k) = Get(e, k)

\* sorted(d.items()): items in ascending order of the key (keys are unique,
\* so the tuple comparison is decided by the key).
RECURSIVE InsertItem(_, _)
InsertItem(item, items) ==
    IF items = <<>> THEN <<item>>
    ELSE IF StrLess(item[1], Head(items)[1]) THEN <<item>> \o items
    ELSE <<Head(items)>> \o InsertItem(item, Tail(items))

RECURSIVE Sorted(_)
Sorted(items) ==
    IF items = <<>> THEN <<>>
    ELSE InsertItem(items[Len(items)], Sorted(SubSeq(items, 1, Len(items) - 1)))

\* d[:-1] on a string: drops the last character (an empty string stays empty).
DropLast(s) == IF s = <<>> THEN <<>> ELSE SubSeq(s, 1, Len(s) - 1)

(***************************************************************************)
(* The clock: datetime.datetime.now(tz=utc) and strftime.                  *)
(***************************************************************************)

\* Number of clock ticks a behaviour may take.
MaxTick == 1

SecondsPerDay == 24 * 3600

\* 2022-06-10T00:00:00Z in Unix seconds (day 19153 since 1970-01-01): the
\* date in the object name of src/main.py.
ScenarioNow == 19153 * SecondsPerDay

\* The first clock reading: one second before that midnight.
Epoch0 == ScenarioNow - 1

\* Zero-padded decimal of a natural number (strftime's %Y %m %d %H %M %S).
RECURSIVE Pad(_, _)
Pad(n, width) ==
    IF width = 0 THEN <<>> ELSE Pad(n \div 10, width - 1) \o <<48 + (n % 10)>>

\* The proleptic Gregorian date of a day number counted from 1970-01-01.
CivilFromDays(days) ==
    LET z == days + 719468
        era == z \div 146097
        doe == z - era * 146097
        yoe == (doe - doe \div 1460 + doe \div 36524 - doe \div 146096) \div 365
        doy == doe - (365 * yoe + yoe \div 4 - yoe \div 100)
        mp == (5 * doy + 2) \div 153
        d == doy - (153 * mp + 2) \div 5 + 1
        m == IF mp < 10 THEN mp + 3 ELSE mp - 9
        y == yoe + era * 400 + (IF m <= 2 THEN 1 ELSE 0)
    IN  [year |-> y, month |-> m, day |-> d]

\* datetime_now.strftime("%Y%m%d")
StrftimeDate(t) ==
    LET c == CivilFromDays(t \div SecondsPerDay)
    IN  Pad(c.year, 4) \o Pad(c.month, 2) \o Pad(c.day, 2)

\* datetime_now.strftime("%Y%m%dT%H%M%SZ")
StrftimeTimestamp(t) ==
    LET s == t % SecondsPerDay
    IN  StrftimeDate(t) \o Str("T") \o Pad(s \div 3600, 2) \o Pad((s % 3600) \div 60, 2)
        \o Pad(s % 60, 2) \o Str("Z")

(***************************************************************************)
(* External capabilities: the digest and the signer.  Both are opaque to   *)
(* generate_signed_url; they are modelled by deterministic stand-ins that  *)
(* depend on every byte of their input.                                    *)
(***************************************************************************)
RollModulus == 46337
RollBase == 263

\* The polynomial digest of bs[lo..hi] in base RollBase, with the power of
\* the base that shifts it: <<sum of bs[i] * RollBase^(hi-i), RollBase^(hi-lo+1)>>,
\* both modulo RollModulus.
RECURSIVE Roll(_, _, _)
Roll(bs, lo, hi) ==
    IF lo = hi THEN <<bs[lo], RollBase>>
    ELSE IF lo > hi THEN <<0, 1>>
    ELSE LET mid == (lo + hi) \div 2
             l == Roll(bs, lo, mid)
             r == Roll(bs, mid + 1, hi)
         IN  <<(l[1] * r[2] + r[1]) % RollModulus, (l[2] * r[2]) % RollModulus>>

\* Stand-in for hashlib.sha256(data).digest(): a two-byte polynomial digest
\* followed by the length of the data modulo 256.
Sha256Digest(bs) ==
    LET a == Roll(bs, 1, Len(bs))[1]
    IN  <<a \div 256, a % 256, Len(bs) % 256>>

\* hashlib.sha256(data).hexdigest()
Sha256HexDigest(bs) == Hexlify(Sha256Digest(bs))

\* google_credentials.signer.sign(message): a keyed signer signs the UTF-8
\* bytes of the message; the deterministic test signer of the specification's
\* scenario returns fixed bytes.
SignerSign(signer, message) ==
    IF signer.kind = "fixed" THEN signer.bytes
    ELSE Sha256Digest(signer.bytes \o EncodeUtf8(message))

\* The key files a process may name in use_service_account.
MainKeyfile == "fuelcast-storage-credentials.json"
TestKeyfile == "test-credentials.json"
Keyfiles == {MainKeyfile, TestKeyfile}

MainEmail == Str("sa@fuelcast.iam")
TestEmail == Str("svc@project.iam.gserviceaccount.com")

\* service_account.Credentials.from_service_account_file(keyfile)
CredentialsFromFile(keyfile) ==
    IF keyfile = MainKeyfile
    THEN [service_account_email |-> MainEmail,
          signer |-> [kind |-> "keyed", bytes |-> <<11, 22, 33>>]]
    ELSE [service_account_email |-> TestEmail,
          signer |-> [kind |-> "fixed", bytes |-> <<222, 173, 190, 239>>]]

\* storage.Client.from_service_account_json(keyfile) and storage.Client()
ClientFromFile(keyfile) == [kind |-> "service_account", keyfile |-> keyfile]
DefaultClient == [kind |-> "default", keyfile |-> ""]

(***************************************************************************)
(* generate_signed_url: the literals of the wire contract.                 *)
(***************************************************************************)
MaxExpiration == 604800
DefaultExpiration == 1000

Slash == Str("/")
Colon == Str(":")
Semicolon == Str(";")
Ampersand == Str("&")
EqualsSign == Str("=")
QuestionMark == Str("?")
HostKey == Str("host")
StorageDomain == Str(".storage.googleapis.com")
ScopeSuffix == Str("/auto/storage/goog4_request")
Algorithm == Str("GOOG4-RSA-SHA256")
UnsignedPayload == Str("UNSIGNED-PAYLOAD")
XGoogAlgorithm == Str("X-Goog-Algorithm")
XGoogCredential == Str("X-Goog-Credential")
XGoogDate == Str("X-Goog-Date")
XGoogExpires == Str("X-Goog-Expires")
XGoogSignedHeaders == Str("X-Goog-SignedHeaders")
SignatureParam == Str("&x-goog-signature=")
HttpsScheme == Str("https")
SchemeSeparator == Str("://")
DefaultMethod == Str("GET")

ExpirationTooLongMessage == "Expiration Time can't be longer than 604800 seconds (7 days)."
NoServiceAccountMessage == "No service account available for signing."

(***************************************************************************)
(* generate_signed_url: the steps, in the order of the code.               *)
(***************************************************************************)

\* (the comparison taken as >=)
ExpirationTooLongInclusive(expiration) == expiration >= MaxExpiration

\* if expiration > 604800
ExpirationTooLong(expiration) == expiration > MaxExpiration

\* escaped_object_name = quote(six.ensure_binary(object_name), safe=b"/~")
PathSafe == {Ord("/"), Ord("~")}

EscapedObjectName(object_name) == QuoteBytes(EncodeUtf8(object_name), PathSafe)

\* canonical_uri = "/{}".format(escaped_object_name)
CanonicalUri(object_name) == Slash \o EscapedObjectName(object_name)

\* credential_scope = "{}/auto/storage/goog4_request".format(datestamp)
CredentialScope(datestamp) == datestamp \o ScopeSuffix

\* credential = "{}/{}".format(client_email, credential_scope)
Credential(client_email, credential_scope) ==
    client_email \o Slash \o credential_scope

\* host = "{}.storage.googleapis.com".format(bucket_name)
Host(bucket_name) == bucket_name \o StorageDomain

\* if headers is None: headers = dict()
HeadersOrNew(headers) == IF headers = None THEN EmptyDict ELSE headers.some

\* headers["host"] = host
HeadersWithHost(headers, bucket_name) ==
    DictSet(HeadersOrNew(headers), HostKey, StrVal(Host(bucket_name)))

\* (the headers taken in insertion order)
UnorderedHeaders(headers) == headers

\* ordered_headers = collections.OrderedDict(sorted(headers.items()))
OrderedHeaders(headers) == Sorted(headers)

\* one line of canonical_headers: "{}:{}\n".format(lower_k, strip_v), where
\* strip_v = str(v).lower()
HeaderLine(item) == Lower(item[1]) \o Colon \o Lower(PyStr(item[2])) \o NL

RECURSIVE CanonicalHeaders(_)
CanonicalHeaders(ordered_headers) ==
    IF ordered_headers = <<>> THEN <<>>
    ELSE HeaderLine(Head(ordered_headers)) \o CanonicalHeaders(Tail(ordered_headers))

RECURSIVE SignedHeadersLoop(_)
SignedHeadersLoop(ordered_headers) ==
    IF ordered_headers = <<>> THEN <<>>
    ELSE Lower(Head(ordered_headers)[1]) \o Semicolon
         \o SignedHeadersLoop(Tail(ordered_headers))

\* signed_headers, with the trailing ';' removed
SignedHeaders(ordered_headers) == DropLast(SignedHeadersLoop(ordered_headers))

\* if query_parameters is None: query_parameters = dict()
QueryOrNew(query_parameters) ==
    IF query_parameters = None THEN EmptyDict ELSE query_parameters.some

\* if subresource:
Truthy(subresource) == subresource # None /\ subresource.some # <<>>

\* query_parameters[...] = ... (the five X-Goog entries, then the subresource)
QueryParameters(query_parameters, credential, request_timestamp, expiration, signed_headers, subresource) ==
    LET q0 == QueryOrNew(query_parameters)
        q1 == DictSet(q0, XGoogAlgorithm, StrVal(Algorithm))
        q2 == DictSet(q1, XGoogCredential, StrVal(credential))
        q3 == DictSet(q2, XGoogDate, StrVal(request_timestamp))
        q4 == DictSet(q3, XGoogExpires, IntVal(expiration))
        q5 == DictSet(q4, XGoogSignedHeaders, StrVal(signed_headers))
    IN  IF Truthy(subresource) THEN DictSet(q5, subresource.some, StrVal(<<>>))
        ELSE q5

\* (the query parameters taken in insertion order)
UnorderedQueryParameters(query_parameters) == query_parameters

\* ordered_query_parameters = collections.OrderedDict(sorted(query_parameters.items()))
OrderedQueryParameters(query_parameters) == Sorted(query_parameters)

\* "{}={}&".format(encoded_k, encoded_v)
QueryPair(item) ==
    Quote(item[1], {}) \o EqualsSign \o Quote(PyStr(item[2]), {}) \o Ampersand

RECURSIVE CanonicalQueryLoop(_)
CanonicalQueryLoop(ordered) ==
    IF ordered = <<>> THEN <<>>
    ELSE QueryPair(Head(ordered)) \o CanonicalQueryLoop(Tail(ordered))

\* canonical_query_string, with the trailing '&' removed
CanonicalQueryString(ordered_query_parameters) ==
    DropLast(CanonicalQueryLoop(ordered_query_parameters))

\* canonical_request = "\n".join([...])
CanonicalRequest(http_method, canonical_uri, canonical_query_string, canonical_headers, signed_headers) ==
    Join(NL, <<http_method, canonical_uri, canonical_query_string,
               canonical_headers, signed_headers, UnsignedPayload>>)

\* canonical_request_hash = hashlib.sha256(canonical_request.encode()).hexdigest()
CanonicalRequestHash(canonical_request) ==
    Sha256HexDigest(EncodeUtf8(canonical_request))

\* string_to_sign = "\n".join([...])
StringToSign(request_timestamp, credential_scope, canonical_request_hash) ==
    Join(NL, <<Algorithm, request_timestamp, credential_scope, canonical_request_hash>>)

\* signature = binascii.hexlify(google_credentials.signer.sign(string_to_sign)).decode()
Signature(google_credentials, string_to_sign) ==
    Hexlify(SignerSign(google_credentials.signer, string_to_sign))

\* scheme_and_host = "{}://{}".format("https", host)
SchemeAndHost(host) == HttpsScheme \o SchemeSeparator \o host

\* (a '/' put between the host and the canonical URI, which has its own)
SignedUrlDoubledSlash(scheme_and_host, canonical_uri, canonical_query_string, signature) ==
    scheme_and_host \o Slash \o canonical_uri \o QuestionMark
    \o canonical_query_string \o SignatureParam \o signature

\* signed_url = "{}{}?{}&x-goog-signature={}".format(...)
SignedUrl(scheme_and_host, canonical_uri, canonical_query_string, signature) ==
    scheme_and_host \o canonical_uri \o QuestionMark \o canonical_query_string
    \o SignatureParam \o signature

(***************************************************************************)
(* generate_signed_url as a whole.  A call is described by its arguments   *)
(* args (None for an argument left at its None default), the class         *)
(* attribute GcsTools._creds and the clock reading; its outcome is the     *)
(* record of what the call returned, printed and left behind.              *)
(***************************************************************************)

\* The local variables of a call that reaches "return signed_url", built in
\* the order of the code.  Each operator below takes the record l of the
\* locals assigned so far and returns it with the next ones.

\* escaped_object_name .. datestamp, client_email, host, headers
NamedLocals(google_credentials, datetime_now, args) ==
    [canonical_uri |-> CanonicalUri(args.object_name),
     request_timestamp |-> StrftimeTimestamp(datetime_now),
     datestamp |-> StrftimeDate(datetime_now),
     client_email |-> google_credentials.service_account_email,
     host |-> Host(args.bucket_name),
     headers |-> HeadersWithHost(args.headers, args.bucket_name)]

\* credential_scope, ordered_headers
ScopedLocals(l) ==
    [credential_scope |-> CredentialScope(l.datestamp),
     ordered_headers |-> OrderedHeaders(l.headers)] @@ l

\* credential, canonical_headers, signed_headers
HeaderLocals(l) ==
    [credential |-> Credential(l.client_email, l.credential_scope),
     canonical_headers |-> CanonicalHeaders(l.ordered_headers),
     signed_headers |-> SignedHeaders(l.ordered_headers)] @@ l

\* query_parameters
QueryLocals(l, args) ==
    [query_parameters |->
        QueryParameters(args.query_parameters, l.credential, l.request_timestamp,
                        args.expiration, l.signed_headers, args.subresource)] @@ l

\* ordered_query_parameters, canonical_query_string
QueryStringLocals(l) ==
    [canonical_query_string |->
        CanonicalQueryString(OrderedQueryParameters(l.query_parameters))] @@ l

\* canonical_request
RequestLocals(l, args) ==
    [canonical_request |->
        CanonicalRequest(args.http_method, l.canonical_uri, l.canonical_query_string,
                         l.canonical_headers, l.signed_headers)] @@ l

\* canonical_request_hash
HashLocals(l) ==
    [canonical_request_hash |-> CanonicalRequestHash(l.canonical_request)] @@ l

\* string_to_sign
StringToSignLocals(l) ==
    [string_to_sign |->
        StringToSign(l.request_timestamp, l.credential_scope,
                     l.canonical_request_hash)] @@ l

\* signature
SignatureLocals(l, google_credentials) ==
    [signature |-> Signature(google_credentials, l.string_to_sign)] @@ l

\* scheme_and_host, signed_url
UrlLocals(l) ==
    [signed_url |->
        SignedUrl(SchemeAndHost(l.host), l.canonical_uri, l.canonical_query_string,
                  l.signature)] @@ l

\* The locals that the properties below look at.
Observed(l) ==
    [canonical_uri |-> l.canonical_uri,
     request_timestamp |-> l.request_timestamp,
     credential_scope |-> l.credential_scope,
     credential |-> l.credential,
     host |-> l.host,
     headers |-> l.headers,
     canonical_headers |-> l.canonical_headers,
     signed_headers |-> l.signed_headers,
     query_parameters |-> l.query_parameters,
     canonical_query_string |-> l.canonical_query_string,
     canonical_request |-> l.canonical_request,
     string_to_sign |-> l.string_to_sign,
     signature |-> l.signature,
     signed_url |-> l.signed_url]

Locals(google_credentials, datetime_now, args) ==
    Observed(UrlLocals(SignatureLocals(StringToSignLocals(HashLocals(
        RequestLocals(QueryStringLocals(QueryLocals(HeaderLocals(ScopedLocals(
            NamedLocals(google_credentials, datetime_now, args))), args)),
            args))), google_credentials)))

\* The caller's mapping object after a call that ran to the end: the dict
\* that was passed is the dict the call wrote to.
MappingAfter(arg, local) == IF arg = None THEN None ELSE Some(local)

\* A call that returns None early: the message is printed, nothing is raised,
\* the signer is not invoked and the caller's mappings are as they were.
SoftFailure(google_credentials, datetime_now, args, message) ==
    [args |-> args, now |-> datetime_now, creds |-> google_credentials,
     printed |-> message, raised |-> "", result |-> None, signer_calls |-> 0,
     headers_after |-> args.headers,
     query_parameters_after |-> args.query_parameters,
     locals |-> None]

\* google_credentials.service_account_email on None raises AttributeError
\* before headers or query_parameters are written.
AttributeError(google_credentials, datetime_now, args) ==
    [args |-> args, now |-> datetime_now, creds |-> google_credentials,
     printed |-> "", raised |-> "AttributeError", result |-> None,
     signer_calls |-> 0,
     headers_after |-> args.headers,
     query_parameters_after |-> args.query_parameters,
     locals |-> None]

\* A call that reaches "return signed_url" with the locals l: the signer was
\* invoked once, and the dicts that were passed are the dicts written to.
Returned(google_credentials, datetime_now, args, l) ==
    [args |-> args, now |-> datetime_now, creds |-> google_credentials,
     printed |-> "", raised |-> "", result |-> Some(l.signed_url),
     signer_calls |-> 1,
     headers_after |-> MappingAfter(args.headers, l.headers),
     query_parameters_after |->
         MappingAfter(args.query_parameters, l.query_parameters),
     locals |-> l]

\* (the test inverted: "is not None")
CredentialsMissingInverted(google_credentials) == google_credentials # None

\* if google_credentials is None
CredentialsMissing(google_credentials) == google_credentials = None

generate_signed_url(google_credentials, datetime_now, args) ==
    IF ExpirationTooLong(args.expiration)
    THEN SoftFailure(google_credentials, datetime_now, args, ExpirationTooLongMessage)
    ELSE IF CredentialsMissing(google_credentials)
    THEN SoftFailure(google_credentials, datetime_now, args, NoServiceAccountMessage)
    ELSE IF google_credentials = None
    THEN AttributeError(google_credentials, datetime_now, args)
    ELSE Returned(google_credentials, datetime_now, args,
                  Locals(google_credentials, datetime_now, args))

(***************************************************************************)
(* The requests a caller makes.                                            *)
(***************************************************************************)
DefaultBucket == Str("fuelcast-data")
DefaultObject == Str("projections/2022-06-10/annual_herb_ppa_2022-06-10.tif")

Buckets == {DefaultBucket, Str("Fuelcast-data")}

Objects == {DefaultObject, Str("a b/~%") \o <<233>>}

Methods == {DefaultMethod, Str("PUT")}

Expirations == {0 - 5, 0, DefaultExpiration, MaxExpiration, MaxExpiration + 1}

Subresources == {None, Some(<<>>), Some(Str("acl")), Some(XGoogExpires)}

Dict(pairs) == [i \in 1..Len(pairs) |-> <<pairs[i][1], StrVal(pairs[i][2])>>]

Reverse(d) == [i \in 1..Len(d) |-> d[Len(d) + 1 - i]]

MixedHeaders == Dict(<< <<Str("X-Foo"), Str(" Bar ")>>, <<Str("a"), Str("1")>> >>)
HostHeaders == Dict(<< <<HostKey, Str("evil.example")>> >>)

HeaderArgs ==
    {None, Some(EmptyDict), Some(MixedHeaders), Some(Reverse(MixedHeaders)),
     Some(HostHeaders)}

PlainQuery == Dict(<< <<Str("z"), Str("1")>>, <<Str("a b"), Str("c&d")>> >>)
GoogQuery == Dict(<< <<XGoogDate, Str("19700101T000000Z")>>, <<XGoogExpires, Str("9")>> >>)

QueryArgs ==
    {None, Some(EmptyDict), Some(PlainQuery), Some(Reverse(PlainQuery)),
     Some(GoogQuery)}

\* The call of src/main.py: every optional argument at its default.
DefaultRequest ==
    [bucket_name |-> DefaultBucket, object_name |-> DefaultObject,
     subresource |-> None, expiration |-> DefaultExpiration,
     http_method |-> DefaultMethod, query_parameters |-> None, headers |-> None]

AllRequests ==
    [bucket_name : Buckets, object_name : Objects, subresource : Subresources,
     expiration : Expirations, http_method : Methods,
     query_parameters : QueryArgs, headers : HeaderArgs]

\* The requests explored: those that differ from the call of src/main.py in
\* at most two arguments.
Arguments == DOMAIN DefaultRequest

Requests ==
    {r \in AllRequests :
        \E f, g \in Arguments :
            \A h \in Arguments \ {f, g} : r[h] = DefaultRequest[h]}

(***************************************************************************)
(* State.                                                                  *)
(***************************************************************************)
VARIABLES
    _instance,  \* GcsTools._instance: None or the singleton
    _creds,     \* GcsTools._creds: None or the service-account credentials
    _client,    \* GcsTools._client: not an attribute until the first construction
    clock,      \* the UTC clock, in Unix seconds
    calls,      \* how many generate_signed_url calls have been made
    last,       \* the most recent generate_signed_url call, None before the first
    pinned,     \* an earlier generate_signed_url call kept for comparison, or None
    constructed \* the GcsTools(...) constructions observed so far, or None

vars == <<_instance, _creds, _client, clock, calls, last, pinned, constructed>>

\* Number of generate_signed_url calls a behaviour may make.
MaxCalls == 1

NoAttribute == [missing |-> TRUE]

TheInstance == [cls |-> "GcsTools"]

Init ==
    /\ _instance = None
    /\ _creds = None
    /\ _client = NoAttribute
    /\ clock = Epoch0
    /\ calls = 0
    /\ last = None
    /\ pinned = None
    /\ constructed = None

\* (without the "if cls._instance is None" guard: every construction makes
\* the instance and loads the client and the credentials anew)
NewEveryTime(use_service_account) ==
    /\ _instance' = TheInstance
    /\ IF use_service_account # None
       THEN /\ _client' = ClientFromFile(use_service_account.some.keyfile)
            /\ _creds' = CredentialsFromFile(use_service_account.some.keyfile)
       ELSE /\ _client' = DefaultClient
            /\ _creds' = _creds
    /\ UNCHANGED <<clock, calls, last, pinned>>

\* GcsTools(**kwargs): use_service_account is None when the keyword is not
\* passed, Some([keyfile |-> path]) when it is.
New(use_service_account) ==
    /\ IF _instance = None
       THEN /\ _instance' = TheInstance
            /\ IF use_service_account # None
               THEN /\ _client' = ClientFromFile(use_service_account.some.keyfile)
                    /\ _creds' = CredentialsFromFile(use_service_account.some.keyfile)
               ELSE /\ _client' = DefaultClient
                    /\ _creds' = _creds
       ELSE UNCHANGED <<_instance, _client, _creds>>
    /\ UNCHANGED <<clock, calls, last, pinned>>

\* The values of the use_service_account keyword.
ServiceAccounts == {None} \cup {Some([keyfile |-> k]) : k \in Keyfiles}

Construct ==
    \E use_service_account \in ServiceAccounts :
        /\ New(use_service_account)
        /\ UNCHANGED constructed

\* Time passes.
Tick ==
    /\ clock < Epoch0 + MaxTick
    /\ clock' = clock + 1
    /\ UNCHANGED <<_instance, _creds, _client, calls, last, pinned, constructed>>

\* The values GcsTools._creds and the clock can take.
CredsValues == {None} \cup {CredentialsFromFile(k) : k \in Keyfiles}
ClockValues == Epoch0..(Epoch0 + MaxTick)

\* The calls generate_signed_url(c, t, args) for args in Requests, tabulated
\* by the credentials and the clock reading (evaluated once).
Outcomes ==
    [c \in CredsValues, t \in ClockValues |->
        {generate_signed_url(c, t, args) : args \in Requests}] @@ <<>>

\* GcsTools.generate_signed_url(...), a static method: callable in any state,
\* with any of the requests.
GenerateSignedUrl ==
    /\ calls < MaxCalls
    /\ \E call \in Outcomes[_creds, clock] :
          /\ last' = call
          /\ calls' = calls + 1
          /\ UNCHANGED <<_instance, _creds, _client, clock, pinned, constructed>>

Next == Construct \/ Tick \/ GenerateSignedUrl

Spec == Init /\ [][Next]_vars

(***************************************************************************)
(* Pairs of calls: the same machine over fewer requests, where any earlier *)
(* call may be kept in pinned for comparison with the latest one.          *)
(***************************************************************************)
PairRequests ==
    {r \in Requests :
        /\ r.bucket_name = DefaultBucket
        /\ r.object_name = DefaultObject
        /\ r.http_method = DefaultMethod
        /\ r.expiration = DefaultExpiration
        /\ r.subresource = None
        /\ r.headers \in {None, Some(MixedHeaders), Some(Reverse(MixedHeaders))}
        /\ r.query_parameters \in {None, Some(PlainQuery), Some(Reverse(PlainQuery))}}

PairOutcomes ==
    [c \in CredsValues, t \in ClockValues |->
        {call \in Outcomes[c, t] : call.args \in PairRequests}] @@ <<>>

\* Number of generate_signed_url calls a behaviour of SpecPairs may make.
MaxPairCalls == 3

GenerateSignedUrlPinning ==
    /\ calls < MaxPairCalls
    /\ \E call \in PairOutcomes[_creds, clock] :
          /\ last' = call
          /\ calls' = calls + 1
          /\ pinned' \in {pinned, last}
          /\ UNCHANGED <<_instance, _creds, _client, clock, constructed>>

NextPairs == Construct \/ Tick \/ GenerateSignedUrlPinning

SpecPairs == Init /\ [][NextPairs]_vars

(***************************************************************************)
(* Constructions observed: the same machine over the requests that differ  *)
(* from main.py's in the expiration only, where constructed keeps what the  *)
(* first and the latest GcsTools(...) were given, every object a            *)
(* construction returned, and how many generate_signed_url calls had been   *)
(* made when the latest one ran.                                            *)
(***************************************************************************)
SingletonRequests ==
    {[DefaultRequest EXCEPT !.expiration = e] : e \in Expirations}

SingletonOutcomes ==
    [c \in CredsValues, t \in ClockValues |->
        {call \in Outcomes[c, t] : call.args \in SingletonRequests}] @@ <<>>

\* gct = GcsTools(...): __new__ returns cls._instance as it is after the call.
ConstructObserved ==
    \E use_service_account \in ServiceAccounts :
        /\ New(use_service_account)
        /\ constructed' =
              [first |-> IF constructed = None THEN use_service_account
                         ELSE constructed.first,
               latest |-> use_service_account,
               returned |-> (IF constructed = None THEN {}
                             ELSE constructed.returned) \cup {_instance'},
               calls_before |-> calls]

GenerateSignedUrlObserved ==
    /\ calls < MaxCalls
    /\ \E call \in SingletonOutcomes[_creds, clock] :
          /\ last' = call
          /\ calls' = calls + 1
          /\ UNCHANGED <<_instance, _creds, _client, clock, pinned, constructed>>

NextSingleton == ConstructObserved \/ Tick \/ GenerateSignedUrlObserved

SpecSingleton == Init /\ [][NextSingleton]_vars

(***************************************************************************)
(* Properties.                                                             *)
(***************************************************************************)
Called == last # None

Succeeded == Called /\ last.result # None

\* C1: a request with expiration > 604800 fails softly with the
\* expiration-too-long outcome (None returned, the too-long message printed,
\* nothing raised, the signer not invoked), whether or not credentials are
\* present; with credentials present, 604800 yields a URL and 604801 does not.
C1_ExpirationTooLongFailsSoftly ==
    Called =>
        /\ last.args.expiration > 604800 =>
              /\ last.result = None
              /\ last.printed = ExpirationTooLongMessage
              /\ last.raised = ""
              /\ last.signer_calls = 0
        /\ (last.creds # None /\ last.args.expiration = 604800) => last.result # None
        /\ (last.creds # None /\ last.args.expiration = 604801) => last.result = None

C1_Witness ==
    /\ Called
    /\ last.creds # None
    /\ last.args.expiration = 604801
    /\ last.result = None
    /\ last.printed = ExpirationTooLongMessage

\* C2 as stated: every request made while GcsTools._creds is None ends with
\* the no-signing-identity outcome (None returned, that message printed,
\* nothing raised, the signer not invoked).
C2_Original ==
    (Called /\ last.creds = None) =>
        /\ last.result = None
        /\ last.printed = NoServiceAccountMessage
        /\ last.raised = ""
        /\ last.signer_calls = 0

\* C2, amended: every request with expiration <= 604800 made while
\* GcsTools._creds is None ends with the no-signing-identity outcome; a longer
\* expiration ends with the expiration-too-long outcome instead.  Either way
\* None is returned, nothing is raised and the signer is not invoked.
C2_NoSigningIdentity ==
    (Called /\ last.creds = None) =>
        /\ last.result = None
        /\ last.raised = ""
        /\ last.signer_calls = 0
        /\ last.printed =
              IF last.args.expiration <= 604800 THEN NoServiceAccountMessage
              ELSE ExpirationTooLongMessage

\* A call made before any GcsTools construction.
C2_Witness ==
    /\ _instance = None
    /\ Called
    /\ last.creds = None
    /\ last.args.expiration <= 604800
    /\ last.printed = NoServiceAccountMessage
    /\ last.result = None

\* Equality of two optional mapping arguments, as Python compares them.
SameMapping(a, b) ==
    IF a = None \/ b = None THEN a = b ELSE DictEq(a.some, b.some)

SameRequest(a, b) ==
    /\ a.bucket_name = b.bucket_name
    /\ a.object_name = b.object_name
    /\ a.http_method = b.http_method
    /\ a.expiration = b.expiration
    /\ a.subresource = b.subresource
    /\ SameMapping(a.query_parameters, b.query_parameters)
    /\ SameMapping(a.headers, b.headers)

SameInputs(a, b) ==
    /\ a.creds = b.creds
    /\ a.now = b.now
    /\ SameRequest(a.args, b.args)

\* C3: two calls with the same credentials, the same request values and the
\* same clock reading return the same URL, whatever calls came between them.
C3_Deterministic ==
    (pinned # None /\ Called /\ SameInputs(pinned, last)) =>
        pinned.result = last.result

\* Two successful calls with equal inputs whose mappings were built in
\* different insertion orders.
C3_Witness ==
    /\ pinned # None
    /\ Called
    /\ SameInputs(pinned, last)
    /\ pinned.args # last.args
    /\ last.result # None
    /\ pinned.result = last.result

\* C4 as stated: a request whose expiration is outside (0, 604800] produces
\* no URL.
C4_Original ==
    (Called /\ (last.args.expiration <= 0 \/ last.args.expiration > 604800)) =>
        last.result = None

\* The requests that differ from args in exactly one of object_name,
\* bucket_name, http_method and expiration, and pass the expiration check.
SigningArguments == {"object_name", "bucket_name", "http_method", "expiration"}

Neighbours(args) ==
    {r \in AllRequests :
        /\ r.expiration <= 604800
        /\ \E f \in SigningArguments :
              /\ r[f] # args[f]
              /\ \A g \in Arguments \ {f} : r[g] = args[g]}

\* C5 as stated: a request that differs from a signed one in exactly one of
\* object path, bucket, method and expiration has a different canonical
\* request (the input of the hash, hence of the signature).
C5_Original ==
    Succeeded =>
        \A r \in Neighbours(last.args) :
            Locals(last.creds, last.now, r).canonical_request
                # last.locals.canonical_request

\* The insertion orders of a mapping argument.
Reorderings(arg) ==
    IF arg = None THEN {None}
    ELSE {Some([i \in 1..Len(arg.some) |-> arg.some[p[i]]]) :
             p \in Permutations(1..Len(arg.some))}

\* C6: whatever the insertion order of the caller's headers and query
\* parameters, the canonical headers, the signed-header list, the canonical
\* query string and the URL are the same.
C6_OrderIndependent ==
    Succeeded =>
        \A h \in Reorderings(last.args.headers) :
            \A q \in Reorderings(last.args.query_parameters) :
                LET l == Locals(last.creds, last.now,
                                [last.args EXCEPT !.headers = h, !.query_parameters = q])
                IN  (h # last.args.headers \/ q # last.args.query_parameters) =>
                        /\ l.canonical_headers = last.locals.canonical_headers
                        /\ l.signed_headers = last.locals.signed_headers
                        /\ l.canonical_query_string = last.locals.canonical_query_string
                        /\ l.signed_url = last.locals.signed_url

\* A call that passed both mappings, each with more than one insertion order.
C6_Witness ==
    /\ Succeeded
    /\ last.args.headers = Some(MixedHeaders)
    /\ last.args.query_parameters = Some(Reverse(PlainQuery))
    /\ Cardinality(Reorderings(last.args.headers)) = 2
    /\ Cardinality(Reorderings(last.args.query_parameters)) = 2

\* The URL of the specification's scenario: the call of src/main.py at
\* 2022-06-10T00:00:00Z, signed by the test credentials.
ScenarioUrl ==
    Str("https://fuelcast-data.storage.googleapis.com")
    \o Str("/projections/2022-06-10/annual_herb_ppa_2022-06-10.tif")
    \o Str("?X-Goog-Algorithm=GOOG4-RSA-SHA256")
    \o Str("&X-Goog-Credential=svc%40project.iam.gserviceaccount.com")
    \o Str("%2F20220610%2Fauto%2Fstorage%2Fgoog4_request")
    \o Str("&X-Goog-Date=20220610T000000Z")
    \o Str("&X-Goog-Expires=1000")
    \o Str("&X-Goog-SignedHeaders=host")
    \o Str("&x-goog-signature=deadbeef")

UrlScheme == Str("https://")
UrlDomain == Str(".storage.googleapis.com")
UrlSignature == Str("&x-goog-signature=")
PlainQueryHead == Str("X-Goog-Algorithm=GOOG4-RSA-SHA256&X-Goog-Credential=")
PlainQueryDate == Str("&X-Goog-Date=")
PlainQueryExpires == Str("&X-Goog-Expires=")
PlainQueryTail == Str("&X-Goog-SignedHeaders=host")
ScopeTail == Str("/auto/storage/goog4_request")

NoExtras(args) ==
    /\ args.query_parameters = None
    /\ args.headers = None
    /\ args.subresource = None

\* C7: a URL produced is "https://" bucket ".storage.googleapis.com" "/"
\* percent-encoded object path "?" canonical query string "&x-goog-signature="
\* lowercase hex of the signer's output over the string-to-sign, where the
\* canonical query string is the one in the hashed canonical request; with no
\* extra parameters, headers or subresource the query is the five X-Goog
\* parameters in order (signature last), and the scenario's URL comes out.
C7_UrlShape ==
    Succeeded =>
        LET l == last.locals
            a == last.args
            path == Str("/") \o Quote(a.object_name, {47, 126})
        IN  /\ last.result.some =
                  UrlScheme \o a.bucket_name \o UrlDomain \o path \o Str("?")
                  \o l.canonical_query_string \o UrlSignature
                  \o Hexlify(SignerSign(last.creds.signer, l.string_to_sign))
            /\ l.canonical_request =
                  a.http_method \o NL \o path \o NL \o l.canonical_query_string \o NL
                  \o l.canonical_headers \o NL \o l.signed_headers \o NL
                  \o Str("UNSIGNED-PAYLOAD")
            /\ l.string_to_sign =
                  Str("GOOG4-RSA-SHA256") \o NL \o StrftimeTimestamp(last.now) \o NL
                  \o StrftimeDate(last.now) \o ScopeTail \o NL
                  \o Sha256HexDigest(EncodeUtf8(l.canonical_request))
            /\ NoExtras(a) =>
                  l.canonical_query_string =
                      PlainQueryHead
                      \o Quote(last.creds.service_account_email \o Str("/")
                               \o StrftimeDate(last.now) \o ScopeTail, {})
                      \o PlainQueryDate \o StrftimeTimestamp(last.now)
                      \o PlainQueryExpires \o IntToStr(a.expiration)
                      \o PlainQueryTail
            /\ (/\ a = DefaultRequest
                /\ last.now = ScenarioNow
                /\ last.creds = CredentialsFromFile(TestKeyfile))
               => last.result.some = ScenarioUrl

C7_Witness ==
    /\ Succeeded
    /\ last.args = DefaultRequest
    /\ last.now = ScenarioNow
    /\ last.creds = CredentialsFromFile(TestKeyfile)
    /\ last.result = Some(ScenarioUrl)

\* Items in ascending order of the lowercased key.
RECURSIVE InsertByLowerKey(_, _)
InsertByLowerKey(item, items) ==
    IF items = <<>> THEN <<item>>
    ELSE IF StrLess(Lower(item[1]), Lower(Head(items)[1])) THEN <<item>> \o items
    ELSE <<Head(items)>> \o InsertByLowerKey(item, Tail(items))

RECURSIVE SortedByLowerKey(_)
SortedByLowerKey(items) ==
    IF items = <<>> THEN <<>>
    ELSE InsertByLowerKey(items[Len(items)],
                          SortedByLowerKey(SubSeq(items, 1, Len(items) - 1)))

\* "lowercased-key:lowercased-and-trimmed-value\n"
TrimmedHeaderLine(item) ==
    Lower(item[1]) \o Str(":") \o Lower(Strip(PyStr(item[2]))) \o NL

RECURSIVE TrimmedHeaderLines(_)
TrimmedHeaderLines(items) ==
    IF items = <<>> THEN <<>>
    ELSE TrimmedHeaderLine(Head(items)) \o TrimmedHeaderLines(Tail(items))

LowerKeys(items) == [i \in 1..Len(items) |-> Lower(items[i][1])]

\* C8 as stated: the canonical headers are one line
\* "lowercased-key:lowercased-and-trimmed-value\n" per header of the merged
\* header set, in ascending order of the lowercased keys, and the
\* signed-header list is those keys in that order joined by ';'.
C8_Original ==
    Succeeded =>
        LET ordered == SortedByLowerKey(last.locals.headers)
        IN  /\ last.locals.canonical_headers = TrimmedHeaderLines(ordered)
            /\ last.locals.signed_headers = Join(Str(";"), LowerKeys(ordered))

\* The "key=value" pairs of a query string: the pieces between '&'.
Cuts(q) == {0, Len(q) + 1} \cup {i \in 1..Len(q) : q[i] = 38}

Pairs(q) ==
    {SubSeq(q, i + 1, j - 1) :
        <<i, j>> \in {c \in Cuts(q) \X Cuts(q) :
                        /\ c[1] < c[2]
                        /\ \A k \in Cuts(q) : ~(c[1] < k /\ k < c[2])}}

StartsWith(s, prefix) ==
    Len(s) >= Len(prefix) /\ SubSeq(s, 1, Len(prefix)) = prefix

\* The query string carries key=value (percent-encoded), and no other value
\* for that key.
Carries(q, key, value) ==
    \A pair \in Pairs(q) :
        StartsWith(pair, Quote(key, {}) \o Str("=")) <=>
            pair = Quote(key, {}) \o Str("=") \o Quote(value, {})

HasParameter(q, key) ==
    \E pair \in Pairs(q) : StartsWith(pair, Quote(key, {}) \o Str("="))

\* The query string of a URL: what follows the '?' up to the signature.
QueryOf(url, signature) ==
    LET start == CHOOSE i \in 1..Len(url) :
                     url[i] = 63 /\ \A k \in 1..(i - 1) : url[k] # 63
    IN  SubSeq(url, start + 1, Len(url) - Len(UrlSignature \o signature))

\* C9 as stated: in a URL produced, the query string carries the five X-Goog
\* parameters with the values the call computed, whatever the caller's query
\* parameters and subresource, and a given subresource with an empty value.
C9_Original ==
    Succeeded =>
        LET l == last.locals
            q == QueryOf(last.result.some, l.signature)
            given == last.args.subresource # None /\ last.args.subresource # Some(<<>>)
        IN  /\ HasParameter(q, Str("X-Goog-Algorithm"))
            /\ Carries(q, Str("X-Goog-Algorithm"), Str("GOOG4-RSA-SHA256"))
            /\ HasParameter(q, Str("X-Goog-Credential"))
            /\ Carries(q, Str("X-Goog-Credential"),
                       last.creds.service_account_email \o Str("/")
                       \o StrftimeDate(last.now) \o ScopeTail)
            /\ HasParameter(q, Str("X-Goog-Date"))
            /\ Carries(q, Str("X-Goog-Date"), StrftimeTimestamp(last.now))
            /\ HasParameter(q, Str("X-Goog-Expires"))
            /\ Carries(q, Str("X-Goog-Expires"), IntToStr(last.args.expiration))
            /\ HasParameter(q, Str("X-Goog-SignedHeaders"))
            /\ Carries(q, Str("X-Goog-SignedHeaders"), l.signed_headers)
            /\ given =>
                  /\ HasParameter(q, last.args.subresource.some)
                  /\ Carries(q, last.args.subresource.some, <<>>)

\* C10 as stated: after a call, the caller's headers mapping and query
\* parameters mapping hold exactly the entries they held before it.
C10_Original ==
    Called =>
        /\ last.headers_after = last.args.headers
        /\ last.query_parameters_after = last.args.query_parameters

\* C11: after any sequence of GcsTools constructions, every construction has
\* returned the same single instance, and the storage client and the signing
\* credentials are the ones the first construction fixed, whatever
\* use_service_account the later ones were given; so when the first
\* construction supplied no service account, every generate_signed_url call
\* returns None without raising or signing, for want of a signing identity
\* (the no-service-account message, unless the expiration was refused first).
C11_Singleton ==
    constructed # None =>
        /\ _instance = TheInstance
        /\ constructed.returned = {_instance}
        /\ _client = IF constructed.first = None THEN DefaultClient
                     ELSE ClientFromFile(constructed.first.some.keyfile)
        /\ _creds = IF constructed.first = None THEN None
                    ELSE CredentialsFromFile(constructed.first.some.keyfile)
        /\ (constructed.first = None /\ Called) =>
              /\ last.creds = None
              /\ last.result = None
              /\ last.raised = ""
              /\ last.signer_calls = 0
              /\ last.args.expiration <= 604800 =>
                    last.printed = NoServiceAccountMessage

\* A first construction without a service account, a later one with
\* use_service_account, and after it a call with a valid expiration that
\* returned None for want of a signing identity.
C11_Witness ==
    /\ constructed # None
    /\ constructed.first = None
    /\ constructed.latest = Some([keyfile |-> MainKeyfile])
    /\ _creds = None
    /\ _client = DefaultClient
    /\ calls > constructed.calls_before
    /\ last.args.expiration = DefaultExpiration
    /\ last.result = None
    /\ last.printed = NoServiceAccountMessage

====
